---- MODULE Spec2Model ----
(***************************************************************************)
(* State-machine model of the llm-file-test-app API server                 *)
(* (src/server.cjs): the chat and analyze-file handlers, the request       *)
(* history table, the uploads directory and the command-spec resolver.     *)
(*                                                                         *)
(* Node runs every handler on one thread: a handler runs without           *)
(* interruption from one await to the next, so each action below is one    *)
(* such synchronous stretch.  The handlers of GET /api/history and of the  *)
(* two DELETE routes contain no await and are single actions.              *)
(*                                                                         *)
(* Modelling conventions                                                   *)
(*   - a nullable value is <<>> (null / undefined) or <<v>>;               *)
(*   - a path is the sequence of its segments;                             *)
(*   - a text handed to Number() or trim() is the sequence of its          *)
(*     characters;                                                         *)
(*   - Date.now() is the variable now; time passes while a handler        *)
(*     waits and never runs backwards;                                     *)
(*   - reqs holds the requests whose handler is waiting; last holds the    *)
(*     request just answered with its answer, until the next step;         *)
(*   - multer's upload names (safeFilename) are taken to be fresh.         *)
(***************************************************************************)
EXTENDS Integers, Sequences, FiniteSets, TLC

\* ------------------------------------------------------------------------
\* Bounds of the model
\* ------------------------------------------------------------------------
\* chat and analyze-file requests that arrive in one behaviour
MaxReq == 2
\* the same, where the requests are of every kind of input
MaxInputReq == 1

\* ------------------------------------------------------------------------
\* Program constants
\* ------------------------------------------------------------------------
\* Math.min(..., 1000) in GET /api/history
LimitCap == 1000
\* req.query.limit || 200
DefaultLimit == 200

NULL == <<>>
Some(v) == <<v>>
IsNull(x) == x = <<>>
Val(x) == x[1]

\* ------------------------------------------------------------------------
\* JavaScript numbers, as far as Number() of a short text produces them:
\* an integer, a non-integer (only its floor is kept) or NaN.
\* ------------------------------------------------------------------------
JsInt(n) == [k |-> "int", v |-> n]
JsFrac(n) == [k |-> "frac", v |-> n]
JsNaN == [k |-> "nan", v |-> 0]

Digits == {"0", "1", "2", "3", "4", "5", "6", "7", "8", "9"}

DigitVal(c) ==
    CASE c = "0" -> 0 [] c = "1" -> 1 [] c = "2" -> 2 [] c = "3" -> 3
      [] c = "4" -> 4 [] c = "5" -> 5 [] c = "6" -> 6 [] c = "7" -> 7
      [] c = "8" -> 8 [] c = "9" -> 9

IsSpace(c) == c = " "

RECURSIVE TrimStart(_)
TrimStart(s) ==
    IF s # <<>> /\ IsSpace(Head(s)) THEN TrimStart(Tail(s)) ELSE s

RECURSIVE TrimEnd(_)
TrimEnd(s) ==
    IF s # <<>> /\ IsSpace(s[Len(s)])
    THEN TrimEnd(SubSeq(s, 1, Len(s) - 1))
    ELSE s

\* Variant: the text is taken as it is.
Trim_Identity(s) == s

\* String.prototype.trim
Trim(s) == TrimEnd(TrimStart(s))

AllDigits(s) == \A i \in 1..Len(s) : s[i] \in Digits

RECURSIVE DecVal(_)
DecVal(s) ==
    IF s = <<>> THEN 0
    ELSE 10 * DecVal(SubSeq(s, 1, Len(s) - 1)) + DigitVal(s[Len(s)])

DotAt(s) ==
    IF \E i \in 1..Len(s) : s[i] = "."
    THEN CHOOSE i \in 1..Len(s) : s[i] = "." /\ \A j \in 1..(i - 1) : s[j] # "."
    ELSE 0

\* Number() of an unsigned decimal literal: digits, digits "." digits,
\* "." digits or digits "."; anything else is NaN.
UnsignedNumber(s) ==
    LET d == DotAt(s)
        ip == IF d = 0 THEN s ELSE SubSeq(s, 1, d - 1)
        fp == IF d = 0 THEN <<>> ELSE SubSeq(s, d + 1, Len(s))
    IN  IF ~AllDigits(ip) \/ ~AllDigits(fp) \/ (ip = <<>> /\ fp = <<>>)
        THEN JsNaN
        ELSE IF DecVal(fp) = 0 THEN JsInt(DecVal(ip)) ELSE JsFrac(DecVal(ip))

Negate(x) ==
    CASE x.k = "int" -> JsInt(0 - x.v)
      [] x.k = "frac" -> JsFrac(0 - x.v - 1)
      [] OTHER -> JsNaN

\* Number(text): surrounding white space is dropped, the empty text is 0,
\* a sign may lead a decimal literal.
ToNumber(text) ==
    LET s == Trim(text)
    IN  IF s = <<>> THEN JsInt(0)
        ELSE IF Head(s) = "-" THEN Negate(UnsignedNumber(Tail(s)))
        ELSE IF Head(s) = "+" THEN UnsignedNumber(Tail(s))
        ELSE UnsignedNumber(s)

\* Number.isFinite
IsFinite(x) == x.k # "nan"

\* Math.min(x, cap) for an integer cap
MathMin(x, cap) ==
    CASE x.k = "nan" -> JsNaN
      [] x.k = "int" -> IF x.v <= cap THEN x ELSE JsInt(cap)
      [] OTHER -> IF x.v < cap THEN x ELSE JsInt(cap)

\* ------------------------------------------------------------------------
\* JSON: the texts the model handles and what JSON.parse / JSON.stringify
\* make of them.  A JSON value is [t, v] with v a record: the members of
\* an object (JEmpty is the object without members), or the one field
\* holding a string, a number or null.
\* ------------------------------------------------------------------------
JObj(r) == [t |-> "obj", v |-> r]
JEmpty == [t |-> "obj", v |-> [empty_ |-> TRUE]]
JStr(s) == [t |-> "str", v |-> [str_ |-> s]]
JNum(n) == [t |-> "num", v |-> [num_ |-> n]]
JNull == [t |-> "null", v |-> [null_ |-> TRUE]]
\* the number Infinity, which JSON.parse gives for a literal beyond the
\* range of a double and JSON.stringify writes as null
JInf == [t |-> "inf", v |-> [inf_ |-> TRUE]]

TxtSpecFull ==
    "{\"name\":\"Extract v1\",\"schema_name\":\"doc\",\"schema\":{},\"user_prompt\":\"Extract.\"}"
TxtSpecBare == "{\"schema_name\":\"inv\",\"schema\":{}}"
TxtSpecNoSchema == "{\"name\":\"x\",\"schema_name\":\"doc\"}"
TxtSpecNoSchemaName == "{\"schema\":{}}"
TxtSpecEmptySchemaName == "{\"schema_name\":\"\",\"schema\":{}}"
TxtBroken == "{\"schema\":"
TxtNull == "null"
TxtEmptyObj == "{}"
TxtSpacedObj == "{ \"a\": 1 }"
TxtTightObj == "{\"a\":1}"
TxtNumber == "5"
TxtProse == "Sorry, no JSON."
TxtRawProse == "{\"_raw\":\"Sorry, no JSON.\"}"
TxtHuge == "{\"a\":1e999}"
TxtNullMember == "{\"a\":null}"

\* JSON.parse: [ok, v]; ok = FALSE is the SyntaxError it throws.
JsonParse(text) ==
    CASE text = TxtSpecFull ->
            [ok |-> TRUE,
             v |-> JObj([name |-> JStr("Extract v1"), schema_name |-> JStr("doc"),
                         schema |-> JEmpty, user_prompt |-> JStr("Extract.")])]
      [] text = TxtSpecBare ->
            [ok |-> TRUE,
             v |-> JObj([schema_name |-> JStr("inv"), schema |-> JEmpty])]
      [] text = TxtSpecNoSchema ->
            [ok |-> TRUE,
             v |-> JObj([name |-> JStr("x"), schema_name |-> JStr("doc")])]
      [] text = TxtSpecNoSchemaName ->
            [ok |-> TRUE, v |-> JObj([schema |-> JEmpty])]
      [] text = TxtSpecEmptySchemaName ->
            [ok |-> TRUE,
             v |-> JObj([schema_name |-> JStr(""), schema |-> JEmpty])]
      [] text = TxtNull -> [ok |-> TRUE, v |-> JNull]
      [] text = TxtEmptyObj -> [ok |-> TRUE, v |-> JEmpty]
      [] text \in {TxtSpacedObj, TxtTightObj} ->
            [ok |-> TRUE, v |-> JObj([a |-> JNum(1)])]
      [] text = TxtNumber -> [ok |-> TRUE, v |-> JNum(5)]
      [] text = TxtHuge -> [ok |-> TRUE, v |-> JObj([a |-> JInf])]
      [] text = TxtNullMember -> [ok |-> TRUE, v |-> JObj([a |-> JNull])]
      [] text = TxtRawProse ->
            [ok |-> TRUE, v |-> JObj([_raw |-> JStr(TxtProse)])]
      [] OTHER -> [ok |-> FALSE, v |-> JNull]

\* JSON.stringify of the values a file request can produce.
JsonStringify(j) ==
    CASE j.t = "null" -> TxtNull
      [] j.t = "num" -> TxtNumber
      [] j = JEmpty -> TxtEmptyObj
      [] j = JObj([a |-> JNum(1)]) -> TxtTightObj
      [] j \in {JObj([a |-> JInf]), JObj([a |-> JNull])} -> TxtNullMember
      [] j = JObj([_raw |-> JStr(TxtProse)]) -> TxtRawProse
      [] OTHER -> "?"

\* Variant: the body reaches the client as the value the handler holds.
ResJson_ByReference(j) == j

\* res.json(body): the body is written with JSON.stringify, and the client
\* reads it back; this is the value the client holds for a member j.
ResJson(j) == JsonParse(JsonStringify(j)).v

\* obj.key of a parsed value: <<>> is undefined.  Reading a property of
\* null throws a TypeError, which the callers test with j.t = "null".
Prop(j, key) ==
    IF j.t = "obj" /\ key \in DOMAIN j.v THEN Some(j.v[key]) ELSE NULL

\* JavaScript truthiness of a property
Truthy(p) ==
    /\ ~IsNull(p)
    /\ Val(p).t # "null"
    /\ Val(p) # JStr("")
    /\ Val(p) # JNum(0)

\* ------------------------------------------------------------------------
\* Paths and the files the resolver can meet
\* ------------------------------------------------------------------------
AppDir == <<"srv", "app">>
\* path.join(__dirname, "commands")
commandsDir == AppDir \o <<"commands">>
\* path.join(__dirname, "uploads")
uploadsDir == AppDir \o <<"uploads">>

\* The directory tree at start-up: the three folders the server creates,
\* command specs of every kind, and files outside the commands folder.
DirPaths == {<<>>, <<"srv">>, AppDir, commandsDir, uploadsDir, <<"etc">>}

FileText(p) ==
    CASE p = commandsDir \o <<"extract-v1.json">> -> Some(TxtSpecFull)
      [] p = commandsDir \o <<"invoice.json">> -> Some(TxtSpecBare)
      [] p = commandsDir \o <<"noschema.json">> -> Some(TxtSpecNoSchema)
      [] p = commandsDir \o <<"noname.json">> -> Some(TxtSpecNoSchemaName)
      [] p = commandsDir \o <<"emptyname.json">> -> Some(TxtSpecEmptySchemaName)
      [] p = commandsDir \o <<"broken.json">> -> Some(TxtBroken)
      [] p = commandsDir \o <<"null.json">> -> Some(TxtNull)
      [] p = AppDir \o <<"secret.json">> -> Some(TxtSpecFull)
      [] p = <<"etc", "passwd">> -> Some(TxtProse)
      [] OTHER -> NULL

\* fs.existsSync
ExistsSync(p) == p \in DirPaths \/ ~IsNull(FileText(p))

RECURSIVE DropTrailingEmpty(_)
DropTrailingEmpty(segs) ==
    IF segs # <<>> /\ segs[Len(segs)] = ""
    THEN DropTrailingEmpty(SubSeq(segs, 1, Len(segs) - 1))
    ELSE segs

\* path.basename of a name given as its "/"-separated segments: trailing
\* separators are dropped and the last segment is returned ("" if none).
Basename(segs) ==
    LET s == DropTrailingEmpty(segs)
    IN  IF s = <<>> THEN "" ELSE s[Len(s)]

\* path.join(dir, seg) for one segment: the joined path is normalized, so
\* "" and "." name dir itself and ".." its parent.
PathJoin(dir, seg) ==
    CASE seg \in {"", "."} -> dir
      [] seg = ".." -> IF dir = <<>> THEN dir ELSE SubSeq(dir, 1, Len(dir) - 1)
      [] OTHER -> dir \o <<seg>>

IsPrefix(a, b) == Len(a) <= Len(b) /\ SubSeq(b, 1, Len(a)) = a

\* The default of loadCommandSpec's parameter and of the handler
DefaultCommand == <<"extract-v1.json">>

\* Variant: loadCommandSpec without the check of lines 159-163.
LoadCommandSpec_NoSchemaCheck(commandFile) ==
    LET cmdPath == PathJoin(commandsDir, Basename(commandFile))
        parsed == JsonParse(IF IsNull(FileText(cmdPath)) THEN TxtBroken
                            ELSE Val(FileText(cmdPath)))
    IN  IF ~ExistsSync(cmdPath) \/ cmdPath \in DirPaths \/ ~parsed.ok
        THEN [threw |-> TRUE, message |-> "Command spec not found", cmd |-> JNull,
              accessed |-> {cmdPath}]
        ELSE [threw |-> FALSE, message |-> "", cmd |-> parsed.v,
              accessed |-> {cmdPath}]

\* loadCommandSpec(commandFile).  threw: it threw (message); cmd: the
\* parsed spec; accessed: the paths it handed to fs.existsSync and
\* fs.readFileSync.
LoadCommandSpec(commandFile) ==
    LET safe == Basename(commandFile)
        cmdPath == PathJoin(commandsDir, safe)
        none == JNull
    IN  IF ~ExistsSync(cmdPath)
        THEN [threw |-> TRUE, message |-> "Command spec not found", cmd |-> none,
              accessed |-> {cmdPath}]
        ELSE IF cmdPath \in DirPaths
        THEN [threw |-> TRUE, message |-> "EISDIR", cmd |-> none,
              accessed |-> {cmdPath}]
        ELSE LET parsed == JsonParse(Val(FileText(cmdPath)))
             IN  IF ~parsed.ok
                 THEN [threw |-> TRUE, message |-> "SyntaxError", cmd |-> none,
                       accessed |-> {cmdPath}]
                 ELSE IF parsed.v.t = "null"
                 THEN [threw |-> TRUE, message |-> "TypeError", cmd |-> none,
                       accessed |-> {cmdPath}]
                 ELSE IF ~Truthy(Prop(parsed.v, "schema"))
                         \/ ~Truthy(Prop(parsed.v, "schema_name"))
                 THEN [threw |-> TRUE, message |-> "Command spec must include schema_name and schema",
                       cmd |-> none, accessed |-> {cmdPath}]
                 ELSE [threw |-> FALSE, message |-> "", cmd |-> parsed.v,
                       accessed |-> {cmdPath}]

VARIABLES
    rows,       \* the request_history table: a set of rows
    seq,        \* sqlite_sequence of the AUTOINCREMENT key: the last id given
    disk,       \* the upload files present in the uploads folder
    written,    \* how many uploads multer has written (the next fresh name)
    now,        \* Date.now()
    arrived,    \* how many chat / analyze-file requests have arrived
    reqs,       \* the chat / analyze-file requests whose handler is waiting
    last,       \* the request just answered and its answer
    gone        \* history: the rows the DELETE handlers removed

vars == <<rows, seq, disk, written, now, arrived, reqs, last, gone>>

\* ------------------------------------------------------------------------
\* Uploads: file.originalname is <<stem, extension>>, file.mimetype is
\* <<type, subtype>> or <<>> when the part declared none.
\* ------------------------------------------------------------------------
\* String.prototype.toLowerCase on the extensions in use
ToLowerCase(s) ==
    CASE s = ".PDF" -> ".pdf"
      [] s = ".WEBP" -> ".webp"
      [] s = ".JPG" -> ".jpg"
      [] OTHER -> s

\* path.extname(file.originalname || "")
ExtName(originalname) == originalname[2]

MimePdf == <<"application", "pdf">>
MimeDocx == <<"application", "vnd.openxmlformats-officedocument.wordprocessingml.document">>
MimeOctet == <<"application", "octet-stream">>

\* mime.startsWith(prefix + "/")
MimeStartsWith(mime, prefix) == Len(mime) = 2 /\ mime[1] = prefix

isImageExtOrMime(ext, mime) ==
    \/ MimeStartsWith(mime, "image")
    \/ ToLowerCase(ext) \in {".jpg", ".jpeg", ".png", ".webp", ".avif"}

\* Variant: a file that matches no rule is taken as plain text.
Classify_FallsBackToText(file) ==
    LET ext == ToLowerCase(ExtName(file.originalname))
    IN  CASE ext = ".pdf" \/ file.mimetype = MimePdf -> "pdf"
          [] ext = ".docx" \/ file.mimetype = MimeDocx -> "docx"
          [] isImageExtOrMime(ext, file.mimetype)
               /\ ext # ".txt" /\ ~MimeStartsWith(file.mimetype, "text") -> "img"
          [] OTHER -> "txt"

\* The classification of lines 252-261 and the branch the dispatch of lines
\* 275-313 takes: the first of PDF, DOCX, TXT, image whose rule matches.
Classify(file) ==
    LET ext == ToLowerCase(ExtName(file.originalname))
        mime == file.mimetype
        isPdf == ext = ".pdf" \/ mime = MimePdf
        isDocx == ext = ".docx" \/ mime = MimeDocx
        isTxt == ext = ".txt" \/ MimeStartsWith(mime, "text")
        isImg == isImageExtOrMime(ext, mime)
    IN  CASE isPdf -> "pdf"
          [] isDocx -> "docx"
          [] isTxt -> "txt"
          [] isImg -> "img"
          [] OTHER -> "unsupported"

\* Variant: only the extension decides on the re-encoding.
NeedsPng_ByExtensionOnly(file) ==
    ToLowerCase(ExtName(file.originalname)) \in {".webp", ".avif"}

\* The image branch re-encodes to PNG (await sharp) for these uploads.
NeedsPng(file) ==
    LET ext == ToLowerCase(ExtName(file.originalname))
    IN  \/ ext \in {".webp", ".avif"}
        \/ file.mimetype \in {<<"image", "webp">>, <<"image", "avif">>}

\* outMime of the image branch, as put into the data URL
ImageOutMime(file) ==
    LET mime == file.mimetype
        outMime == IF NeedsPng(file) THEN <<"image", "png">>
                   ELSE IF mime = <<"image", "jpg">> THEN <<"image", "jpeg">>
                   ELSE mime
    IN  IF outMime = <<>> THEN <<"image", "png">> ELSE outMime

\* ------------------------------------------------------------------------
\* ------------------------------------------------------------------------
\* Requests and answers
\* ------------------------------------------------------------------------
NoFile == [originalname |-> <<"", "">>, mimetype |-> <<>>, size |-> 0]

\* A request as its handler holds it: the inputs, the handler's locals,
\* and what has happened to it (calls: the awaited calls it has made;
\* accessed: the paths the resolver touched; returned: its extraction or
\* chat call returned; failed: the awaited step that rejected; storeErrors:
\* how many of its INSERT statements threw; body: req.body.prompt as it
\* came; outputText: response.output_text of its chat or extraction call).
NewRequest(type, rid) ==
    [rid |-> rid, type |-> type, pc |-> "start", prompt |-> <<>>, file |-> NoFile,
     body |-> NULL, outputText |-> NULL,
     path |-> NULL, command |-> NULL, cmd |-> JNull, kind |-> "none",
     createdAt |-> 0, startedAt |-> 0, openaiFileId |-> NULL,
     parts |-> <<>>, calls |-> <<>>, accessed |-> {},
     returned |-> FALSE, failed |-> "none", storeErrors |-> 0]

\* An answer: the status and body of the response to a chat or file
\* request (req); the limit and items of a listing; the id, the deleted
\* flag and the upload paths of a deletion (all of them, those missing on
\* disk, those whose unlinkSync threw).
Answer(op, status) ==
    [op |-> op, status |-> status, error |-> NULL, output |-> NULL, result |-> NULL,
     historyItem |-> NULL, req |-> NewRequest("none", 0),
     limit |-> JsNaN, items |-> <<>>, id |-> JsNaN,
     deleted |-> FALSE, paths |-> {}, missing |-> {}, failed |-> {}]

NoAnswer == Answer("none", 0)

\* res.status(status).json({error})
ErrorAnswer(r, status, message) ==
    [Answer(r.type, status) EXCEPT !.error = Some(message), !.req = r]

\* The handler of request old goes on waiting, as r.
Continue(old, r) ==
    /\ reqs' = (reqs \ {old}) \cup {r}
    /\ last' = NoAnswer

\* The handler of request old answers.
Finish(old, answer) ==
    /\ reqs' = reqs \ {old}
    /\ last' = answer

\* new Date().toISOString(): the instant, tagged as a text
ToISOString(t) == <<"iso", t>>

\* ------------------------------------------------------------------------
\* The history table
\* ------------------------------------------------------------------------
\* insertChatStmt.run: the columns it does not name stay NULL.  req is not
\* a column: it records which request ran the statement.
ChatRow(id, r, response, status, error, durationMs) ==
    [id |-> id, created_at |-> ToISOString(r.createdAt),
     request_type |-> Some("chat"),
     prompt |-> r.prompt, response |-> response, status |-> status,
     error |-> error, duration_ms |-> Some(durationMs),
     command_name |-> NULL, file_name |-> NULL, file_mime |-> NULL,
     file_size |-> NULL, file_path |-> NULL, openai_file_id |-> NULL,
     result_json |-> NULL, req |-> r.rid]

\* cmd.name || path.basename(req.body?.command || "extract-v1.json")
CommandName(r) ==
    IF Truthy(Prop(r.cmd, "name")) THEN Val(Prop(r.cmd, "name")).v.str_
    ELSE Basename(IF IsNull(r.command) \/ r.command = Some(<<"">>)
                  THEN DefaultCommand ELSE Val(r.command))

\* Variant: the file row is written through the chat statement, which
\* has no file columns.
FileRow_ChatColumnsOnly(id, r, status, error, durationMs, resultJson) ==
    [id |-> id, created_at |-> ToISOString(r.createdAt),
     request_type |-> Some("file"),
     prompt |-> <<"Analyze file: ">> \o r.file.originalname,
     response |-> NULL, status |-> status, error |-> error,
     duration_ms |-> Some(durationMs),
     command_name |-> NULL, file_name |-> NULL, file_mime |-> NULL,
     file_size |-> NULL, file_path |-> NULL, openai_file_id |-> NULL,
     result_json |-> NULL, req |-> r.rid]

\* insertFileStmt.run of the success path (lines 345-360) and of the catch
\* (lines 386-401)
FileRow(id, r, status, error, durationMs, resultJson) ==
    [id |-> id, created_at |-> ToISOString(r.createdAt),
     request_type |-> Some("file"),
     prompt |-> <<"Analyze file: ">> \o r.file.originalname,
     response |-> NULL, status |-> status, error |-> error,
     duration_ms |-> Some(durationMs),
     command_name |-> Some(CommandName(r)),
     file_name |-> Some(r.file.originalname),
     file_mime |-> Some(r.file.mimetype),
     file_size |-> Some(r.file.size), file_path |-> r.path,
     openai_file_id |-> r.openaiFileId, result_json |-> resultJson,
     req |-> r.rid]

\* The historyItem of a chat response (lines 212-221), written from the
\* handler's locals; the keys it does not have are <<>>.
ChatHistoryItem(id, r, outputText, durationMs) ==
    [id |-> id, created_at |-> ToISOString(r.createdAt),
     request_type |-> Some("chat"),
     prompt |-> r.prompt, response |-> Some(outputText), status |-> "success",
     error |-> NULL, duration_ms |-> Some(durationMs),
     command_name |-> NULL, file_name |-> NULL, file_mime |-> NULL,
     file_size |-> NULL, file_path |-> NULL, openai_file_id |-> NULL,
     result_json |-> NULL, req |-> 0]

\* Variant: the historyItem of a file response says pending.
FileHistoryItem_Pending(id, r, status, error, durationMs, resultJson) ==
    [id |-> id, created_at |-> ToISOString(r.createdAt),
     request_type |-> Some("file"),
     prompt |-> <<"Analyze file: ">> \o r.file.originalname,
     response |-> NULL, status |-> "pending", error |-> error,
     duration_ms |-> Some(durationMs),
     command_name |-> Some(CommandName(r)),
     file_name |-> Some(r.file.originalname),
     file_mime |-> Some(r.file.mimetype),
     file_size |-> Some(r.file.size), file_path |-> NULL,
     openai_file_id |-> r.openaiFileId, result_json |-> resultJson,
     req |-> 0]

\* The historyItem of a file response (lines 364-378 and 405-419), written
\* from the handler's locals: it has neither response nor file_path.
FileHistoryItem(id, r, status, error, durationMs, resultJson) ==
    [id |-> id, created_at |-> ToISOString(r.createdAt),
     request_type |-> Some("file"),
     prompt |-> <<"Analyze file: ">> \o r.file.originalname,
     response |-> NULL, status |-> status, error |-> error,
     duration_ms |-> Some(durationMs),
     command_name |-> Some(CommandName(r)),
     file_name |-> Some(r.file.originalname),
     file_mime |-> Some(r.file.mimetype),
     file_size |-> Some(r.file.size), file_path |-> NULL,
     openai_file_id |-> r.openaiFileId, result_json |-> resultJson,
     req |-> 0]

Ids(rs) == {x.id : x \in rs}

\* The rows that request rid has inserted and that are still there.
RowsOf(rid) == {x \in rows : x.req = rid}

\* ------------------------------------------------------------------------
\* The external service, as the handlers see it
\* ------------------------------------------------------------------------
\* uploaded.id of client.files.create
RegisteredId == "file-1"
\* the message of an exception thrown by a statement's run()
StoreError == "SQLITE_FULL: database or disk is full"

\* ------------------------------------------------------------------------
\* POST /api/chat (lines 184-227).  W gives the ranges of the inputs and of
\* the service's answers.
\* ------------------------------------------------------------------------
\* The catch of the chat handler (lines 223-226): it logs and answers 500;
\* it runs no statement.
ChatCatch(old, r, err) ==
    /\ Finish(old, ErrorAnswer(r, 500, "Server error calling OpenAI."))
    /\ UNCHANGED <<rows, seq>>

\* Lines 186-195: the prompt is trimmed; an empty one is answered 400, any
\* other is sent to the service and the handler waits.
ChatArrive(W) ==
    /\ arrived < W.cap
    /\ arrived' = arrived + 1
    /\ \E body \in W.prompts :
         LET prompt == Trim(IF IsNull(body) THEN <<>> ELSE Val(body))
             r0 == [NewRequest("chat", arrived + 1) EXCEPT !.body = body]
         IN  IF prompt = <<>>
             THEN Finish(r0, ErrorAnswer(r0, 400, "Missing prompt."))
             ELSE Continue(r0, [r0 EXCEPT !.pc = "chat", !.prompt = prompt,
                                          !.createdAt = now, !.startedAt = now,
                                          !.calls = <<"responses.create">>])
    /\ UNCHANGED <<rows, seq, disk, written, now, gone>>

\* Lines 197-222: the call returned.  The row is inserted and the answer
\* carries it; if the statement throws, the catch answers.
ChatReturned(old, r, out, stored) ==
    LET outputText == IF IsNull(out) THEN "" ELSE Val(out)
        durationMs == now' - r.startedAt
        row == ChatRow(seq + 1, r, Some(outputText), "success", NULL, durationMs)
    IN  IF stored
        THEN /\ rows' = rows \cup {row}
             /\ seq' = seq + 1
             /\ Finish(old, [Answer("chat", 200) EXCEPT !.output = Some(outputText),
                                 !.historyItem =
                                     Some(ChatHistoryItem(seq + 1, r, outputText, durationMs)),
                                 !.req = r])
        ELSE ChatCatch(old, [r EXCEPT !.storeErrors = 1], Some(StoreError))

\* Variant: no call settles while another request's call hangs (a server
\* that waits for its calls one at a time).
ChatResolve_BlockedByHung(W) ==
    /\ \A h \in reqs : h.pc # "hung"
    /\ \E r \in reqs :
        /\ r.pc = "chat"
        /\ \E d \in W.elapsed : now' = now + d
        /\ \/ \E out \in W.chatOutputs, stored \in BOOLEAN :
                ChatReturned(r, [r EXCEPT !.returned = TRUE, !.outputText = out],
                             out, stored)
           \/ \E err \in W.errors :
                ChatCatch(r, [r EXCEPT !.failed = "responses.create"], err)
        /\ UNCHANGED <<disk, written, arrived, gone>>

\* The awaited client.responses.create of a chat request settles.
ChatResolve(W) ==
    \E r \in reqs :
        /\ r.pc = "chat"
        /\ \E d \in W.elapsed : now' = now + d
        /\ \/ \E out \in W.chatOutputs, stored \in BOOLEAN :
                ChatReturned(r, [r EXCEPT !.returned = TRUE, !.outputText = out],
                             out, stored)
           \/ \E err \in W.errors :
                ChatCatch(r, [r EXCEPT !.failed = "responses.create"], err)
        /\ UNCHANGED <<disk, written, arrived, gone>>

\* ------------------------------------------------------------------------
\* POST /api/analyze-file (lines 237-426)
\* ------------------------------------------------------------------------
InputFile(fileId) ==
    [type |-> "input_file", file_id |-> Some(fileId), text |-> NULL, mime |-> <<>>]
InputText(text) ==
    [type |-> "input_text", file_id |-> NULL, text |-> Some(text), mime |-> <<>>]
\* asDataUrl(buf, mime): the data URL is kept as the media type it carries
InputImage(mime) ==
    [type |-> "input_image", file_id |-> NULL, text |-> NULL, mime |-> mime]

\* Variant: the command's prompt is put in front of the upload's part.
WithPrompt_PromptFirst(r, parts) ==
    [r EXCEPT !.parts = <<InputText(<<"Extract.">>)>> \o parts,
              !.calls = Append(r.calls, "responses.create"),
              !.pc = "extract"]

\* Lines 316-333: the command's prompt is appended and the extraction
\* call is made.
WithPrompt(r, parts) ==
    LET up == Prop(r.cmd, "user_prompt")
        text == IF Truthy(up) THEN <<Val(up).v.str_>>
                ELSE <<"Extract the required information from the provided input.">>
    IN  [r EXCEPT !.parts = Append(parts, InputText(text)),
                  !.calls = Append(r.calls, "responses.create"),
                  !.pc = "extract"]

\* Variant: the catch stores its error row without the message.
FileCatch_NoMessage(old, r, err, stored) ==
    LET row == FileRow(seq + 1, r, "error", NULL, now' - r.startedAt, NULL)
    IN  /\ rows' = rows \cup {row}
        /\ seq' = seq + 1
        /\ Finish(old, [ErrorAnswer(r, 500, "Analyze failed.")
                           EXCEPT !.historyItem =
                               Some(FileHistoryItem(seq + 1, r, "error", NULL,
                                                    now' - r.startedAt, NULL))])

\* The catch of lines 380-425: the failure is stored as an error row and
\* answered 500 with it; if that statement throws too, 500 without it.
FileCatch(old, r, err, stored) ==
    LET durationMs == now' - r.startedAt
        message == IF IsNull(err) THEN "Analyze failed." ELSE Val(err)
        row == FileRow(seq + 1, r, "error", Some(message), durationMs, NULL)
    IN  IF stored
        THEN /\ rows' = rows \cup {row}
             /\ seq' = seq + 1
             /\ Finish(old, [ErrorAnswer(r, 500, message)
                                EXCEPT !.historyItem =
                                    Some(FileHistoryItem(seq + 1, r, "error", Some(message),
                                                         durationMs, NULL))])
        ELSE /\ Finish(old, ErrorAnswer([r EXCEPT !.storeErrors = r.storeErrors + 1],
                                        500, message))
             /\ UNCHANGED <<rows, seq>>

\* Variant: a PDF is not registered with the service but sent as text.
FileHandler_PdfAsText(r) ==
    LET spec == LoadCommandSpec(IF IsNull(r.command) \/ r.command = Some(<<"">>)
                                THEN DefaultCommand ELSE Val(r.command))
        r2 == [r EXCEPT !.accessed = spec.accessed, !.cmd = spec.cmd,
                        !.kind = Classify(r.file)]
    IN  IF spec.threw \/ r2.kind = "unsupported"
        THEN [req |-> [r2 EXCEPT !.pc = "rejected"], message |-> spec.message]
        ELSE [req |-> WithPrompt(r2, <<InputText(<<"contents of the upload">>)>>),
              message |-> ""]

\* Lines 244-313 up to the first await: the command spec is resolved, the
\* file classified, and the first call of its branch started.  The result
\* is the request as the handler leaves it, with pc = "rejected" where it
\* has answered 400 (message).
FileHandler(r) ==
    LET commandFile == IF IsNull(r.command) \/ r.command = Some(<<"">>)
                       THEN DefaultCommand ELSE Val(r.command)
        spec == LoadCommandSpec(commandFile)
        kind == Classify(r.file)
        r1 == [r EXCEPT !.accessed = spec.accessed]
        r2 == [r1 EXCEPT !.cmd = spec.cmd, !.kind = kind]
    IN  IF spec.threw
        THEN [req |-> [r1 EXCEPT !.pc = "rejected"], message |-> spec.message]
        ELSE [message |-> "Unsupported file type. Allowed: PDF, DOCX, TXT, JPG/PNG/WEBP/AVIF.",
              req |->
                CASE kind = "unsupported" -> [r2 EXCEPT !.pc = "rejected"]
                  [] kind = "pdf" ->
                        [r2 EXCEPT !.pc = "register", !.calls = <<"files.create">>]
                  [] kind = "docx" -> [r2 EXCEPT !.pc = "docx", !.calls = <<"mammoth">>]
                  [] kind = "txt" ->
                        WithPrompt(r2, <<InputText(<<"contents of the upload">>)>>)
                  [] kind = "img" ->
                        IF NeedsPng(r.file)
                        THEN [r2 EXCEPT !.pc = "sharp", !.calls = <<"sharp">>]
                        ELSE WithPrompt(r2, <<InputImage(ImageOutMime(r.file))>>)]

\* A multipart request arrives.  Without a file part it is answered 400;
\* otherwise multer stores the part under a fresh name before the handler
\* runs.
FileArrive(W) ==
    /\ arrived < W.cap
    /\ arrived' = arrived + 1
    /\ \E f \in W.files :
         LET up == f[1]
             command == f[2]
             r0 == [NewRequest("file", arrived + 1) EXCEPT !.command = command]
         IN  IF IsNull(up)
             THEN /\ Finish(r0, ErrorAnswer(r0, 400, "Missing file."))
                  /\ UNCHANGED <<disk, written>>
             ELSE LET h == FileHandler([r0 EXCEPT !.file = Val(up),
                                                  !.path = Some(written + 1),
                                                  !.createdAt = now,
                                                  !.startedAt = now])
                  IN  /\ written' = written + 1
                      /\ disk' = disk \cup {written + 1}
                      /\ IF h.req.pc = "rejected"
                         THEN Finish(r0, ErrorAnswer(h.req, 400, h.message))
                         ELSE Continue(r0, h.req)
    /\ UNCHANGED <<rows, seq, now, gone>>

\* The awaited step of the branch settles: client.files.create (PDF),
\* mammoth.extractRawText (DOCX) or sharp (WEBP/AVIF).  A rejection goes
\* to the catch.
FileNormalized(W) ==
    \E r \in reqs :
        /\ r.pc \in {"register", "docx", "sharp"}
        /\ \E d \in W.elapsed : now' = now + d
        /\ \/ /\ r.pc = "register"
              /\ Continue(r, WithPrompt([r EXCEPT !.openaiFileId = Some(RegisteredId)],
                                        <<InputFile(RegisteredId)>>))
              /\ UNCHANGED <<rows, seq>>
           \/ /\ r.pc = "docx"
              /\ \E value \in W.docx :
                   LET text == Trim(IF IsNull(value) THEN <<>> ELSE Val(value))
                   IN  Continue(r, WithPrompt(r,
                           <<InputText(IF text = <<>>
                                       THEN <<"(DOCX contained no extractable text.)">>
                                       ELSE text)>>))
              /\ UNCHANGED <<rows, seq>>
           \/ /\ r.pc = "sharp"
              /\ Continue(r, WithPrompt(r, <<InputImage(ImageOutMime(r.file))>>))
              /\ UNCHANGED <<rows, seq>>
           \/ \E err \in W.errors, stored \in BOOLEAN :
                FileCatch(r, [r EXCEPT !.failed =
                                 CASE r.pc = "register" -> "files.create"
                                   [] r.pc = "docx" -> "mammoth"
                                   [] OTHER -> "sharp"],
                          err, stored)
        /\ UNCHANGED <<disk, written, arrived, gone>>

\* Variant: the answer of the success path throws after its row is stored,
\* so the catch stores an error row for the same request.
FileReturned_AlsoCatches(old, r, out, stored, storedAgain) ==
    LET durationMs == now' - r.startedAt
        row == FileRow(seq + 1, r, "success", NULL, durationMs, Some(TxtEmptyObj))
        again == FileRow(seq + 2, r, "error", Some("res.json failed"), durationMs, NULL)
    IN  /\ rows' = rows \cup {row, again}
        /\ seq' = seq + 2
        /\ Finish(old, [ErrorAnswer(r, 500, "res.json failed")
                           EXCEPT !.historyItem =
                               Some(FileHistoryItem(seq + 2, r, "error",
                                                    Some("res.json failed"), durationMs,
                                                    NULL))])

\* Lines 335-379: the extraction returned.  Its text is parsed (a text
\* that is no JSON is wrapped as {_raw: text}), the success row inserted
\* and the answer sent; a throwing statement lands in the catch.
FileReturned(old, r, out, stored, storedAgain) ==
    LET durationMs == now' - r.startedAt
        jsonText == IF IsNull(out) \/ out = Some("") THEN TxtEmptyObj ELSE Val(out)
        p == JsonParse(jsonText)
        parsed == IF p.ok THEN p.v ELSE JObj([_raw |-> JStr(jsonText)])
        row == FileRow(seq + 1, r, "success", NULL, durationMs,
                       Some(JsonStringify(parsed)))
    IN  IF stored
        THEN /\ rows' = rows \cup {row}
             /\ seq' = seq + 1
             /\ Finish(old, [Answer("file", 200) EXCEPT !.result = Some(ResJson(parsed)),
                                 !.historyItem =
                                     Some(FileHistoryItem(seq + 1, r, "success", NULL,
                                                          durationMs,
                                                          Some(JsonStringify(parsed)))),
                                 !.req = r])
        ELSE FileCatch(old, [r EXCEPT !.storeErrors = 1], Some(StoreError), storedAgain)

\* The awaited client.responses.create of a file request settles.
FileResolve(W) ==
    \E r \in reqs :
        /\ r.pc = "extract"
        /\ \E d \in W.elapsed : now' = now + d
        /\ \/ \E out \in W.fileOutputs, stored \in BOOLEAN, storedAgain \in BOOLEAN :
                FileReturned(r, [r EXCEPT !.returned = TRUE, !.outputText = out],
                             out, stored, storedAgain)
           \/ \E err \in W.errors, stored \in BOOLEAN :
                FileCatch(r, [r EXCEPT !.failed = "responses.create"], err, stored)
        /\ UNCHANGED <<disk, written, arrived, gone>>

\* ------------------------------------------------------------------------
\* GET /api/history (lines 431-435)
\* ------------------------------------------------------------------------
\* Math.min(Number(req.query.limit || 200), 1000): an absent or empty
\* parameter is falsy and gives the default; any other text goes through
\* Number().
EffectiveLimit(q) ==
    MathMin(IF IsNull(q) \/ Val(q) = <<>> THEN JsInt(DefaultLimit) ELSE ToNumber(Val(q)),
            LimitCap)

\* The columns listStmt selects: file_path is not among them, and a NULL
\* request_type reads as 'chat'.
Selected(row) ==
    [id |-> row.id, created_at |-> row.created_at,
     request_type |-> IF IsNull(row.request_type) THEN Some("chat") ELSE row.request_type,
     prompt |-> row.prompt, response |-> row.response, status |-> row.status,
     error |-> row.error, duration_ms |-> row.duration_ms,
     command_name |-> row.command_name, file_name |-> row.file_name,
     file_mime |-> row.file_mime, file_size |-> row.file_size,
     openai_file_id |-> row.openai_file_id, result_json |-> row.result_json]

\* ORDER BY id DESC LIMIT n: a negative n is no limit at all in SQLite.
RECURSIVE OrderByIdDescLimit(_, _)
OrderByIdDescLimit(rs, n) ==
    IF rs = {} \/ n = 0 THEN <<>>
    ELSE LET top == CHOOSE x \in rs : \A y \in rs : y.id <= x.id
         IN  <<Selected(top)>> \o OrderByIdDescLimit(rs \ {top}, IF n < 0 THEN n ELSE n - 1)

\* listStmt.all({limit}) on the table rs: SQLite takes an integer LIMIT
\* only; a bound value that is no integer (NaN is bound as NULL) is a
\* datatype mismatch, which all() throws.
ListStmtAll(rs, limit) ==
    IF limit.k = "int"
    THEN [threw |-> FALSE, items |-> OrderByIdDescLimit(rs, limit.v)]
    ELSE [threw |-> TRUE, items |-> <<>>]

List(W) ==
    /\ \E q \in W.limits :
         LET limit == EffectiveLimit(q)
             res == ListStmtAll(rows, limit)
         IN  last' = IF res.threw
                     THEN [Answer("list", 500) EXCEPT !.limit = limit]
                     ELSE [Answer("list", 200) EXCEPT !.limit = limit,
                                                      !.items = res.items]
    /\ UNCHANGED <<rows, seq, disk, written, now, arrived, reqs, gone>>

\* ------------------------------------------------------------------------
\* DELETE /api/history/:id and DELETE /api/history (lines 440-474)
\* ------------------------------------------------------------------------
\* Variant: the clean-up never unlinks.
RemoveUploads_NoUnlink(paths, failed) ==
    [threw |-> FALSE, removed |-> {}]

\* Variant: the clean-up without its try/catch and existsSync: a missing
\* upload (ENOENT) or a failing unlinkSync ends the handler.
RemoveUploads_Uncaught(paths, failed) ==
    IF failed # {} \/ paths \ disk # {}
    THEN [threw |-> TRUE, removed |-> {}]
    ELSE [threw |-> FALSE, removed |-> paths]

\* The clean-up of lines 445-452 and 463-470 for the recorded paths, of
\* which unlinkSync throws for those in failed: a path that is not on disk
\* is skipped (existsSync), a throw is caught and logged.  threw says
\* whether an exception leaves the clean-up; removed is what it unlinked.
RemoveUploads(paths, failed) ==
    [threw |-> FALSE, removed |-> (paths \cap disk) \ failed]

\* The record of a removed row: its id and path, the handler that removed
\* it, whether unlinkSync threw for its upload and whether the upload was
\* missing.
Removal(row, by, failed) ==
    [id |-> row.id, file_path |-> row.file_path, by |-> by,
     unlinkFailed |-> ~IsNull(row.file_path) /\ Val(row.file_path) \in failed,
     missing |-> ~IsNull(row.file_path) /\ Val(row.file_path) \notin disk]

\* Variant: the handlers clean up and answer but never run their DELETE
\* statement.
DeleteRows_NoStatement(op, id, doomed) ==
    LET paths == {Val(x.file_path) : x \in {y \in doomed : ~IsNull(y.file_path)}}
    IN  /\ disk' = disk \ paths
        /\ UNCHANGED <<rows, gone>>
        /\ last' = [Answer(op, 200) EXCEPT !.id = id, !.paths = paths,
                        !.missing = paths \ disk, !.deleted = doomed # {}]

\* What both handlers do with the rows they are about to delete; doomed is
\* that set of rows.  An exception that left the clean-up would end the
\* handler before its DELETE statement, answered 500 by Express.
DeleteRows(op, id, doomed) ==
    LET paths == {Val(x.file_path) : x \in {y \in doomed : ~IsNull(y.file_path)}}
    IN  \E failed \in SUBSET (paths \cap disk) :
          LET cleanup == RemoveUploads(paths, failed)
              answer == [Answer(op, IF cleanup.threw THEN 500 ELSE 200)
                            EXCEPT !.id = id, !.paths = paths,
                                   !.missing = paths \ disk, !.failed = failed]
          IN  /\ disk' = disk \ cleanup.removed
              /\ IF cleanup.threw
                 THEN /\ last' = answer
                      /\ UNCHANGED <<rows, gone>>
                 ELSE /\ rows' = rows \ doomed
                      /\ gone' = gone \cup {Removal(x, op, failed) : x \in doomed}
                      /\ last' = [answer EXCEPT !.deleted = doomed # {}]

\* Variant: the statement deletes every row up to the id given.
DeleteOne_DeletesUpTo(W) ==
    /\ \E text \in W.ids :
         LET id == ToNumber(text)
         IN  IF ~IsFinite(id)
             THEN /\ last' = [Answer("deleteOne", 400) EXCEPT !.id = id]
                  /\ UNCHANGED <<rows, disk, gone>>
             ELSE DeleteRows("deleteOne", id,
                             {x \in rows : id.k = "int" /\ x.id <= id.v})
    /\ UNCHANGED <<seq, written, now, arrived, reqs>>

\* DELETE /api/history/:id: an id that Number() does not make finite is
\* answered 400; otherwise the row's upload is cleaned up and the row
\* deleted (a non-integer id matches no row).
DeleteOne(W) ==
    /\ \E text \in W.ids :
         LET id == ToNumber(text)
         IN  IF ~IsFinite(id)
             THEN /\ last' = [Answer("deleteOne", 400) EXCEPT !.id = id]
                  /\ UNCHANGED <<rows, disk, gone>>
             ELSE DeleteRows("deleteOne", id,
                             {x \in rows : id.k = "int" /\ x.id = id.v})
    /\ UNCHANGED <<seq, written, now, arrived, reqs>>

\* Variant: deleting every row also resets the key sequence (as a table
\* without AUTOINCREMENT behaves once it is empty).
DeleteAll_ResetsSequence ==
    /\ DeleteRows("deleteAll", JsNaN, rows)
    /\ seq' = 0
    /\ UNCHANGED <<written, now, arrived, reqs>>

\* Variant: deleting every row empties the uploads folder as a whole.
DeleteAll_EmptiesUploadsDir ==
    /\ disk' = {}
    /\ rows' = {}
    /\ gone' = gone \cup {Removal(x, "deleteAll", {}) : x \in rows}
    /\ last' = [Answer("deleteAll", 200) EXCEPT !.deleted = rows # {},
                    !.paths = {Val(x.file_path) : x \in {y \in rows : ~IsNull(y.file_path)}}]
    /\ UNCHANGED <<seq, written, now, arrived, reqs>>

\* DELETE /api/history: the uploads of all rows are cleaned up, then every
\* row is deleted.
DeleteAll ==
    /\ DeleteRows("deleteAll", JsNaN, rows)
    /\ UNCHANGED <<seq, written, now, arrived, reqs>>

\* ------------------------------------------------------------------------
\* The environment
\* ------------------------------------------------------------------------
\* A recorded upload disappears from the uploads folder behind the
\* server's back (the case the existsSync of lines 447 and 466 provides
\* for).  The server never looks again at an upload without a row.
UploadRemovedExternally ==
    /\ \E x \in rows :
         /\ ~IsNull(x.file_path)
         /\ Val(x.file_path) \in disk
         /\ disk' = disk \ {Val(x.file_path)}
    /\ last' = NoAnswer
    /\ UNCHANGED <<rows, seq, written, now, arrived, reqs, gone>>

\* ------------------------------------------------------------------------
\* Inputs
\* ------------------------------------------------------------------------
Upload(stem, ext, mime) ==
    Some([originalname |-> <<stem, ext>>, mimetype |-> mime, size |-> 3])

UpPdf == Upload("report", ".pdf", MimePdf)
UpDocx == Upload("letter", ".docx", MimeDocx)
UpTxt == Upload("notes", ".txt", <<"text", "plain">>)
UpWebp == Upload("notes", ".webp", <<"image", "webp">>)
UpExe == Upload("tool", ".exe", MimeOctet)
UpUpperPdf == Upload("SCAN", ".PDF", MimeOctet)
UpJpg == Upload("photo", ".jpg", <<"image", "jpg">>)
UpPngByExt == Upload("pic", ".png", MimeOctet)
UpAvifByMime == Upload("blob", "", <<"image", "avif">>)
UpPdfNamedTxt == Upload("mixed", ".txt", MimePdf)
UpNoType == Upload("README", "", <<>>)
UpWebpDeclaredPdf == Upload("scan", ".webp", MimePdf)
UpTxtDeclaredAvif == Upload("memo", ".txt", <<"image", "avif">>)

AllUploads ==
    {NULL, UpPdf, UpDocx, UpTxt, UpWebp, UpExe, UpUpperPdf, UpJpg, UpPngByExt,
     UpAvifByMime, UpPdfNamedTxt, UpNoType, UpWebpDeclaredPdf, UpTxtDeclaredAvif}

AllCommands ==
    {NULL, Some(<<"">>), Some(<<"extract-v1.json">>), Some(<<"invoice.json">>),
     Some(<<"..", "..", "etc", "passwd">>), Some(<<"..", "secret.json">>),
     Some(<<"..">>), Some(<<".">>), Some(<<"", "">>), Some(<<"sub", "invoice.json", "">>),
     Some(<<"broken.json">>), Some(<<"noschema.json">>), Some(<<"noname.json">>),
     Some(<<"emptyname.json">>), Some(<<"null.json">>), Some(<<"missing.json">>)}

\* The inputs and service answers of the concurrent server: one value of
\* each kind the handlers tell apart.
\*   prompts: req.body.prompt (<<>>: a body without the field)
\*   files: <<req.file, req.body.command>>, the command as its
\*     "/"-separated segments (<<>>: no file part, no command field)
\*   limits: req.query.limit (<<>>: no parameter); ids: req.params.id
\*   chatOutputs, fileOutputs: response.output_text (<<>>: undefined)
\*   errors: error.message of a rejected call (<<>>: no message)
\*   docx: result.value of mammoth.extractRawText
\*   elapsed: the milliseconds that pass while a handler waits
\*   cap: the requests that arrive in one behaviour
Core ==
    [prompts |-> {Some(<<"h", "i">>), Some(<<" ">>)},
     files |-> ({UpPdf, UpDocx, UpWebp} \X {NULL})
                 \cup {<<UpPdf, Some(<<"missing.json">>)>>},
     limits |-> {NULL, Some(<<"1">>)},
     ids |-> {<<"1">>, <<"2">>},
     chatOutputs |-> {Some("pong")},
     fileOutputs |-> {Some(TxtSpacedObj)},
     errors |-> {Some("429 rate limit")},
     docx |-> {Some(<<"t", " ">>)},
     elapsed |-> {1},
     cap |-> MaxReq]

\* The inputs in their variety, for the server taking few requests: every
\* upload with the default command, every command with a PDF and with an
\* unsupported upload.  The texts of limits and ids stay within what
\* ToNumber covers (white space, sign, decimal digits, one point).
Full ==
    [prompts |-> {NULL, Some(<<>>), Some(<<" ", " ">>), Some(<<" ", "h", "i", " ">>),
                  Some(<<"h", "i">>)},
     files |-> (AllUploads \X {NULL}) \cup ({UpPdf, UpExe} \X AllCommands),
     limits |-> {NULL, Some(<<>>), Some(<<"0">>), Some(<<"-", "5">>), Some(<<"a", "b", "c">>),
                 Some(<<"2", ".", "5">>), Some(<<"1">>), Some(<<"2">>),
                 Some(<<"1", "0", "0", "0">>), Some(<<"5", "0", "0", "0">>),
                 Some(<<" ", "7", " ">>)},
     ids |-> {<<"1">>, <<"2">>, <<"1", ".", "5">>, <<"a", "b", "c">>, <<"-", "1">>,
              <<" ", "1">>, <<"1", ".", "0">>},
     chatOutputs |-> {Some("pong"), NULL},
     fileOutputs |-> {Some(TxtSpacedObj), Some(TxtProse), Some(TxtNumber), Some(TxtHuge),
                      Some(""), NULL},
     errors |-> {Some("429 rate limit"), NULL},
     docx |-> {NULL, Some(<<" ">>), Some(<<"t", " ">>)},
     elapsed |-> {0, 1},
     cap |-> MaxInputReq]

\* ------------------------------------------------------------------------
\* The server under concurrent requests
\* ------------------------------------------------------------------------
Init ==
    /\ rows = {}
    /\ seq = 0
    /\ disk = {}
    /\ written = 0
    /\ now = 0
    /\ arrived = 0
    /\ reqs = {}
    /\ last = NoAnswer
    /\ gone = {}

Next ==
    \/ ChatArrive(Core)
    \/ FileArrive(Core)
    \/ ChatResolve(Core)
    \/ FileNormalized(Core)
    \/ FileResolve(Core)
    \/ List(Core)
    \/ DeleteOne(Core)
    \/ DeleteAll
    \/ UploadRemovedExternally

Spec == Init /\ [][Next]_vars

\* ------------------------------------------------------------------------
\* The server taking few requests, of every kind of input
\* ------------------------------------------------------------------------
NextInputs ==
    \/ ChatArrive(Full)
    \/ FileArrive(Full)
    \/ ChatResolve(Full)
    \/ FileNormalized(Full)
    \/ FileResolve(Full)
    \/ List(Full)
    \/ DeleteOne(Full)
    \/ DeleteAll
    \/ UploadRemovedExternally

SpecInputs == Init /\ [][NextInputs]_vars

\* ------------------------------------------------------------------------
\* The server with service calls that may never return
\* ------------------------------------------------------------------------
\* The awaited service call of a waiting request turns out never to settle
\* (the code sets no timeout): its handler is never resumed.
CallHangs ==
    /\ \E r \in reqs :
         /\ r.pc \in {"chat", "register", "extract"}
         /\ Continue(r, [r EXCEPT !.pc = "hung"])
    /\ UNCHANGED <<rows, seq, disk, written, now, arrived, gone>>

NextLive ==
    \/ ChatArrive(Core)
    \/ FileArrive(Core)
    \/ ChatResolve(Core)
    \/ FileNormalized(Core)
    \/ FileResolve(Core)
    \/ List(Core)
    \/ DeleteOne(Core)
    \/ DeleteAll
    \/ UploadRemovedExternally
    \/ CallHangs

\* Every awaited call that does not hang settles at some time, and Node
\* then resumes its handler.
SpecLive ==
    /\ Init /\ [][NextLive]_vars
    /\ WF_vars(ChatResolve(Core))
    /\ WF_vars(FileNormalized(Core))
    /\ WF_vars(FileResolve(Core))

\* ------------------------------------------------------------------------
\* Properties
\* ------------------------------------------------------------------------
\* The request just answered is a chat or file request.
Answered == last.op \in {"chat", "file"}

\* One of its calls to the service was rejected.
UpstreamFailed == last.req.failed \in {"files.create", "responses.create"}

\* The listing a GET /api/history with limit parameter q would give now
ListedIds(q) ==
    LET res == ListStmtAll(rows, EffectiveLimit(q))
    IN  {res.items[k].id : k \in 1..Len(res.items)}

\* C1: every chat or file request whose service call fails leaves exactly
\* one row, with status = error and an error message (stated for the
\* requests whose INSERT statements did not throw).
C1_FailedCallLeavesOneErrorRow ==
    (Answered /\ UpstreamFailed /\ last.req.storeErrors = 0)
        => /\ Cardinality(RowsOf(last.req.rid)) = 1
           /\ \A x \in RowsOf(last.req.rid) : x.status = "error" /\ ~IsNull(x.error)

\* C2: every POST /api/chat with a prompt that is not empty after trimming
\* adds exactly one row, of request_type chat and with duration_ms >= 0
\* (stated for the requests whose INSERT statement did not throw).
C2_ChatAddsOneRow ==
    (last.op = "chat" /\ last.req.prompt # <<>> /\ last.req.storeErrors = 0)
        => /\ Cardinality(RowsOf(last.req.rid)) = 1
           /\ \A x \in RowsOf(last.req.rid) :
                x.request_type = Some("chat") /\ Val(x.duration_ms) >= 0

\* C3, as claimed: once DELETE /api/history/:id has removed a row, no
\* listing contains its id, and its upload, if it had one, is not on disk.
C3_DeletedRowAndFileAreGone ==
    \A g \in gone :
        g.by = "deleteOne"
            => /\ \A q \in Full.limits : g.id \notin ListedIds(q)
               /\ ~IsNull(g.file_path) => Val(g.file_path) \notin disk

\* C3, amended: the same, except that the upload may remain where its
\* unlinkSync threw.
C3_DeletedRowIsGoneAndFileUnlessUnlinkFailed ==
    \A g \in gone :
        g.by = "deleteOne"
            => /\ \A q \in Full.limits : g.id \notin ListedIds(q)
               /\ (~IsNull(g.file_path) /\ ~g.unlinkFailed)
                     => Val(g.file_path) \notin disk

\* C3, its case: a row with an upload on disk was deleted by id, the
\* unlink went through, and another row is still listed.
C3_Witness ==
    /\ last.op = "deleteOne" /\ last.deleted
    /\ last.paths # {} /\ last.failed = {} /\ last.missing = {}
    /\ rows # {}

\* C4, as claimed: when DELETE /api/history answers, the listing is empty
\* and no upload that a row referred to is on disk.
C4_DeleteAllLeavesNothing ==
    last.op = "deleteAll"
        => /\ \A q \in Full.limits : ListedIds(q) = {}
           /\ last.paths \cap disk = {}

\* C4, amended: the same, except for the uploads whose unlinkSync threw.
C4_DeleteAllLeavesOnlyFailedUnlinks ==
    last.op = "deleteAll"
        => /\ last.status = 200
           /\ \A q \in Full.limits : ListedIds(q) = {}
           /\ (last.paths \ last.failed) \cap disk = {}

\* C4, its case: DELETE /api/history removed two rows with uploads.
C4_Witness ==
    /\ last.op = "deleteAll" /\ last.deleted
    /\ Cardinality(last.paths) = 2 /\ last.failed = {} /\ last.missing = {}

\* C5: a missing upload or a throwing unlinkSync does not stop the DELETE
\* handlers: the answer is the normal 200 one without an error, and the
\* rows are deleted.
C5_CleanupFailureIsSwallowed ==
    (last.op \in {"deleteOne", "deleteAll"} /\ (last.missing # {} \/ last.failed # {}))
        => /\ last.status = 200 /\ IsNull(last.error)
           /\ last.deleted
           /\ last.op = "deleteOne" => last.id.v \notin Ids(rows)
           /\ last.op = "deleteAll" => rows = {}

\* C5, its case: DELETE /api/history met a missing upload and a throwing
\* unlinkSync.
C5_Witness ==
    /\ last.op = "deleteAll"
    /\ last.missing # {} /\ last.failed # {}

\* C6: the limit of every GET /api/history is an integer in 1..1000 (200
\* without the parameter), the listing is answered and holds no more than
\* 1000 rows.
C6_LimitIsClamped ==
    last.op = "list"
        => /\ last.status = 200
           /\ last.limit.k = "int" /\ last.limit.v \in 1..LimitCap
           /\ Len(last.items) <= LimitCap

\* C7: every analyze-file request that wrote an upload is recorded by a
\* row whose file_path is that upload (stated for the requests whose
\* INSERT statements did not throw).
C7_EveryUploadHasARow ==
    (last.op = "file" /\ ~IsNull(last.req.path) /\ last.req.storeErrors = 0)
        => \E x \in rows : x.file_path = last.req.path

\* C8, state part: a waiting request has no row; the rows ever inserted
\* are no more than the requests answered, and no two rows are of one
\* request; every row is complete.
C8_OneRowAfterTheOutcome ==
    /\ \A r \in reqs : RowsOf(r.rid) = {}
    /\ seq <= arrived - Cardinality(reqs)
    /\ \A x, y \in rows : x.req = y.req => x = y
    /\ \A x \in rows :
         /\ x.status \in {"success", "error"}
         /\ ~IsNull(x.request_type) /\ ~IsNull(x.duration_ms)
         /\ x.prompt # <<>>

\* C8, step part: a row that stays in the table stays as it was inserted.
C8_RowsAreNeverModified ==
    \A x \in rows : \A y \in rows' : y.id = x.id => y = x

\* C8: no request has more than one row, the row is inserted after the
\* service call has settled, complete, and is never modified.
C8_SingleWriteAfterOutcome ==
    [](C8_OneRowAfterTheOutcome) /\ [][C8_RowsAreNeverModified]_vars

\* C8, its case: two requests, both recorded, one row of a failed call.
C8_Witness ==
    /\ Cardinality(rows) = 2
    /\ \E x \in rows : x.status = "error"
    /\ \E x \in rows : x.status = "success"

\* The command file a request names, as the resolver is meant to find it
CommandPath(command) ==
    PathJoin(commandsDir,
             Basename(IF IsNull(command) \/ command = Some(<<"">>)
                      THEN DefaultCommand ELSE Val(command)))

\* That file is missing, is no JSON, or lacks schema or schema_name.
BadCommand(command) ==
    LET text == FileText(CommandPath(command))
    IN  \/ IsNull(text)
        \/ ~JsonParse(Val(text)).ok
        \/ ~Truthy(Prop(JsonParse(Val(text)).v, "schema"))
        \/ ~Truthy(Prop(JsonParse(Val(text)).v, "schema_name"))

\* C9: an analyze-file request with a bad command spec is answered 400 at
\* once, has no row and has called the service for nothing.
C9_BadCommandIsRejected ==
    /\ \A r \in reqs : r.type = "file" => ~BadCommand(r.command)
    /\ (last.op = "file" /\ ~IsNull(last.req.path) /\ BadCommand(last.req.command))
          => /\ last.status = 400
             /\ RowsOf(last.req.rid) = {}
             /\ last.req.calls = <<>>

\* C9, its case: a request whose command file lacks its schema was
\* rejected.
C9_Witness ==
    /\ last.op = "file" /\ last.status = 400
    /\ last.req.command = Some(<<"noschema.json">>)

\* C10: resolving a command touches no path outside the commands folder
\* (the folder itself counts as inside), and a name without a file there
\* is rejected.
C10_ResolutionStaysInCommandsDir ==
    last.op = "file"
        => /\ \A p \in last.req.accessed : IsPrefix(commandsDir, p)
           /\ (~IsNull(last.req.path) /\ IsNull(FileText(CommandPath(last.req.command))))
                 => last.status = 400

\* The extraction of the request just answered returned a text that
\* JSON.parse rejects.
UnparseableOutput ==
    /\ last.op = "file" /\ last.req.returned
    /\ ~IsNull(last.req.outputText) /\ last.req.outputText # Some("")
    /\ ~JsonParse(Val(last.req.outputText)).ok

\* C11: a file request whose output text is no JSON does not fail: it is
\* answered 200 with the result {_raw: text}, its one row has status
\* success and that wrapper as result_json; and the result of every
\* file request answered 200 is an object (stated for the requests whose
\* INSERT statement did not throw).
C11_ResultIsAlwaysAnObject ==
    /\ (UnparseableOutput /\ last.req.storeErrors = 0)
          => LET wrapper == JObj([_raw |-> JStr(Val(last.req.outputText))])
             IN  /\ last.status = 200
                 /\ last.result = Some(wrapper)
                 /\ Cardinality(RowsOf(last.req.rid)) = 1
                 /\ \A x \in RowsOf(last.req.rid) :
                      /\ x.status = "success" /\ IsNull(x.error)
                      /\ x.result_json = Some(JsonStringify(wrapper))
    /\ (last.op = "file" /\ last.status = 200) => Val(last.result).t = "obj"

\* Every id the table has given so far: those of the rows and of the rows
\* deleted.
AssignedIds == Ids(rows) \cup {g.id : g \in gone}

\* C12, state part: no two rows share an id, and no row has the id of a
\* deleted row.
C12_IdsAreUnique ==
    /\ \A x, y \in rows : x.id = y.id => x = y
    /\ \A g \in gone : g.id \notin Ids(rows)

\* C12, step part: a row that is inserted has an id greater than every id
\* given before.
C12_NewIdIsGreatest ==
    \A y \in rows' \ rows : \A i \in AssignedIds : y.id > i

\* C12: ids are unique and strictly increasing over inserts and both kinds
\* of deletion; the id of a deleted row is never given again.
C12_IdsNeverReused ==
    [](C12_IdsAreUnique) /\ [][C12_NewIdIsGreatest]_vars

\* C12, its case: a request has just inserted a row after a row was
\* deleted.
C12_Witness ==
    /\ Answered /\ ~IsNull(last.historyItem)
    /\ gone # {}
    /\ \A g \in gone : Val(last.historyItem).id > g.id

\* C13: a GET /api/history is answered with exactly min(limit, number of
\* rows) items, limit being the effective limit; they are the rows with
\* the largest ids, in strictly descending order of id.
C13_ListReturnsTheNewest ==
    last.op = "list"
        => LET n == Len(last.items)
               ids == {last.items[k].id : k \in 1..n}
               count == Cardinality(rows)
           IN  /\ last.status = 200
               /\ n = IF last.limit.v < count THEN last.limit.v ELSE count
               /\ \A k \in 1..(n - 1) : last.items[k].id > last.items[k + 1].id
               /\ ids \subseteq Ids(rows)
               /\ \A i \in ids : \A j \in Ids(rows) \ ids : i > j

\* C14: every row has status success or error, and it has an error
\* message if and only if its status is error.
C14_ErrorIffStatusError ==
    \A x \in rows :
        /\ x.status \in {"success", "error"}
        /\ ~IsNull(x.error) <=> x.status = "error"

\* C14, its case: a file request has just stored its error row, next to a
\* success row.
C14_Witness ==
    /\ last.op = "file" /\ last.status = 500 /\ ~IsNull(last.historyItem)
    /\ \E x \in rows : x.status = "error" /\ x.req = last.req.rid /\ ~IsNull(x.error)
    /\ \E x \in rows : x.status = "success" /\ IsNull(x.error)

\* The request just answered brought a file that matches none of the PDF,
\* DOCX, text and image rules.
MatchesNoRule(file) ==
    /\ ToLowerCase(file.originalname[2])
          \notin {".pdf", ".docx", ".txt", ".jpg", ".jpeg", ".png", ".webp", ".avif"}
    /\ file.mimetype \notin {MimePdf, MimeDocx}
    /\ file.mimetype = <<>> \/ file.mimetype[1] \notin {"text", "image"}

UnsupportedUpload ==
    /\ last.op = "file" /\ ~IsNull(last.req.path)
    /\ MatchesNoRule(last.req.file)

AllowedTypesMessage ==
    "Unsupported file type. Allowed: PDF, DOCX, TXT, JPG/PNG/WEBP/AVIF."

\* No waiting request has such a file; the request just answered was
\* answered 400, has no row and called the service for nothing.
RejectedBeforeAnyCall ==
    /\ \A r \in reqs : r.type = "file" => ~MatchesNoRule(r.file)
    /\ UnsupportedUpload
          => /\ last.status = 400
             /\ RowsOf(last.req.rid) = {}
             /\ last.req.calls = <<>>

WebpOrAvif(file) ==
    \/ ToLowerCase(file.originalname[2]) \in {".webp", ".avif"}
    \/ file.mimetype \in {<<"image", "webp">>, <<"image", "avif">>}

\* The file matches the PDF, DOCX or text rule, which are tried before
\* the image rule.
ClaimedByEarlierRule(file) ==
    \/ ToLowerCase(file.originalname[2]) \in {".pdf", ".docx", ".txt"}
    \/ file.mimetype \in {MimePdf, MimeDocx}
    \/ (file.mimetype # <<>> /\ file.mimetype[1] = "text")

\* The file requests at hand: those waiting and the one just answered.
FileRequests ==
    {r \in reqs : r.type = "file"} \cup (IF last.op = "file" THEN {last.req} ELSE {})

\* Request r has made its extraction call after re-encoding its image,
\* with a PNG image part first.
SubmittedAsPng(r) ==
    /\ r.calls = <<"sharp", "responses.create">>
    /\ r.parts[1] = InputImage(<<"image", "png">>)

\* C16, as claimed: every WEBP or AVIF upload that reaches the extraction
\* call was re-encoded to PNG before and is submitted as an image part
\* with the media type image/png.
C16_WebpAvifAlwaysReencoded ==
    \A r \in FileRequests :
        (WebpOrAvif(r.file) /\ r.pc = "extract") => SubmittedAsPng(r)

\* C16, amended: the same for the uploads that match none of the PDF,
\* DOCX and text rules; one that does is handled by that rule and is not
\* re-encoded.
C16_WebpAvifImagesReencoded ==
    \A r \in FileRequests :
        /\ (WebpOrAvif(r.file) /\ ~ClaimedByEarlierRule(r.file) /\ r.pc = "extract")
              => SubmittedAsPng(r)
        /\ (WebpOrAvif(r.file) /\ ClaimedByEarlierRule(r.file))
              => "sharp" \notin {r.calls[k] : k \in 1..Len(r.calls)}

\* C16, its case: an upload that is AVIF by its declared type only was
\* answered 200 after re-encoding.
C16_Witness ==
    /\ last.op = "file" /\ last.status = 200
    /\ last.req.file.originalname[2] = ""
    /\ last.req.file.mimetype = <<"image", "avif">>
    /\ SubmittedAsPng(last.req)

\* Request r brought a PDF (by extension or declared type) and no command
\* field.
PdfWithoutCommand(r) ==
    /\ ~IsNull(r.path) /\ IsNull(r.command)
    /\ \/ ToLowerCase(r.file.originalname[2]) = ".pdf"
       \/ r.file.mimetype = MimePdf

\* C17: for a PDF sent without a command field, extract-v1.json is the
\* spec resolved; the file is registered once, and before the extraction
\* call, which refers to it by the identifier returned; the row of the
\* request has request_type file, the original name as file_name and that
\* identifier as openai_file_id (no identifier where the registration
\* itself failed).
C17_PdfIsRegisteredThenExtracted ==
    \A r \in FileRequests :
        PdfWithoutCommand(r)
            => /\ r.accessed = {commandsDir \o <<"extract-v1.json">>}
               /\ r.cmd = JsonParse(TxtSpecFull).v
               /\ r.calls \in {<<"files.create">>, <<"files.create", "responses.create">>}
               /\ Len(r.calls) = 2
                     => /\ r.failed # "files.create"
                        /\ r.openaiFileId = Some(RegisteredId)
                        /\ r.parts[1] = InputFile(RegisteredId)
               /\ \A x \in RowsOf(r.rid) :
                     /\ x.request_type = Some("file")
                     /\ x.file_name = Some(r.file.originalname)
                     /\ x.openai_file_id =
                           IF r.failed = "files.create" THEN NULL ELSE Some(RegisteredId)

\* C17, its case: report.pdf, sent without a command, was answered 200
\* and has its row.
C17_Witness ==
    /\ last.op = "file" /\ last.status = 200
    /\ PdfWithoutCommand(last.req)
    /\ last.req.file.originalname = <<"report", ".pdf">>
    /\ \E x \in RowsOf(last.req.rid) : x.openai_file_id = Some(RegisteredId)

\* The prompt of a chat body is missing or consists of white space only.
BlankPrompt(body) ==
    IsNull(body) \/ \A i \in 1..Len(Val(body)) : Val(body)[i] = " "

\* C18, state part: a chat request with a blank prompt is answered 400 at
\* once, without a call and without a row.
C18_BlankPromptIsRejected ==
    /\ \A r \in reqs : r.type = "chat" => ~BlankPrompt(r.body)
    /\ (last.op = "chat" /\ BlankPrompt(last.req.body))
          => /\ last.status = 400
             /\ last.req.calls = <<>>
             /\ RowsOf(last.req.rid) = {}

\* C18, step part: the step that answers it changes neither the table,
\* its key sequence nor the uploads.
C18_RejectionChangesNothing ==
    (last'.op = "chat" /\ BlankPrompt(last'.req.body))
        => rows' = rows /\ seq' = seq /\ disk' = disk

\* C18: a POST /api/chat whose prompt is missing or empty after trimming
\* is answered 400, calls no service and leaves the store unchanged.
C18_BlankPromptLeavesStoreUnchanged ==
    [](C18_BlankPromptIsRejected) /\ [][C18_RejectionChangesNothing]_vars

\* C18, its case: a prompt of two spaces was rejected.
C18_Witness ==
    /\ last.op = "chat" /\ last.status = 400
    /\ last.req.body = Some(<<" ", " ">>)
    /\ last.error = Some("Missing prompt.")

\* C19: a DELETE /api/history/:id whose id is no integer is answered 400
\* and deletes nothing.
C19_NonIntegerIdIsRejected ==
    (last.op = "deleteOne" /\ last.id.k # "int")
        => last.status = 400 /\ ~last.deleted

C21_FailedWriteLeavesNoRow ==
    (Answered /\ last.req.storeErrors > 0)
        => /\ last.status = 500
           /\ IsNull(last.historyItem)
           /\ RowsOf(last.req.rid) = {}

\* C22, state part: the upload of a deleted row is off the disk, unless
\* its unlinkSync threw.
C22_DeletedUploadsAreGone ==
    \A g \in gone :
        (~IsNull(g.file_path) /\ ~g.unlinkFailed) => Val(g.file_path) \notin disk

\* C22, step part: a step of the server that takes an upload off the disk
\* is a DELETE that removes the row of that upload in the same step; a
\* DELETE inserts no row, and unlinks the upload of every row it removes
\* unless unlinkSync threw; no other step removes a row.
C22_OnlyDeletesRemoveUploads ==
    /\ (disk \ disk' # {} /\ ~UploadRemovedExternally)
          => /\ last'.op \in {"deleteOne", "deleteAll"}
             /\ \A p \in disk \ disk' : \E x \in rows \ rows' : x.file_path = Some(p)
    /\ last'.op \in {"deleteOne", "deleteAll"}
          => /\ rows' \subseteq rows
             /\ \A x \in rows \ rows' :
                  (~IsNull(x.file_path) /\ Val(x.file_path) \notin last'.failed)
                      => Val(x.file_path) \notin disk'
    /\ rows \ rows' # {} => last'.op \in {"deleteOne", "deleteAll"}

\* C22: under every interleaving of the requests, and where unlinkSync
\* does not throw, the upload of a recorded request leaves the disk with
\* its row and by a DELETE handler only.
C22_UploadLivesAsLongAsItsRow ==
    [](C22_DeletedUploadsAreGone) /\ [][C22_OnlyDeletesRemoveUploads]_vars

\* C22, its case: DELETE /api/history has removed a row and its upload
\* while a file request was waiting, whose upload is still on disk.
C22_Witness ==
    /\ last.op = "deleteAll" /\ last.paths # {} /\ last.failed = {}
    /\ last.paths \cap disk = {}
    /\ \E r \in reqs : r.type = "file" /\ Val(r.path) \in disk

\* The rows that have the id of the DELETE /api/history/:id answered by
\* this step.
RowsWithDeletedId == {x \in rows : last'.id.k = "int" /\ x.id = last'.id.v}

\* C23, step part: a DELETE /api/history/:id removes the rows with that
\* id and no other, inserts none, and unlinks no upload but that of the
\* row it removes; deleted is true exactly if there was such a row; where
\* there was none, table and uploads stay as they are.  A second delete
\* of an id right after one that reported true reports false.
C23_DeleteOneTouchesOneRow ==
    last'.op = "deleteOne"
        => /\ rows' = rows \ RowsWithDeletedId \/ rows' = rows
           /\ Cardinality(rows \ rows') <= 1
           /\ \A p \in disk \ disk' : \E x \in rows \ rows' : x.file_path = Some(p)
           /\ last'.deleted <=> RowsWithDeletedId # {}
           /\ last'.deleted <=> rows' # rows
           /\ ~last'.deleted => disk' = disk
           /\ (last.op = "deleteOne" /\ last.deleted /\ last.id = last'.id)
                 => ~last'.deleted

\* C23: deleteOne(id) removes at most the record with that id and
\* nothing else, and reports deleted = true exactly if the record existed.
C23_DeleteOneFrame ==
    [][C23_DeleteOneTouchesOneRow]_vars

\* C23, its case: the second delete of an id reports false and leaves the
\* other row and its upload alone.
C23_Witness ==
    /\ last.op = "deleteOne" /\ last.status = 200 /\ ~last.deleted
    /\ \E g \in gone : g.by = "deleteOne" /\ g.id = last.id.v
    /\ \E x \in rows : ~IsNull(x.file_path) /\ Val(x.file_path) \in disk

\* C24: when the answer to a chat or file request carries a historyItem,
\* the row with its id is in the table, is the row of that request, and
\* has the item's status, error, prompt, duration_ms, created_at and
\* request_type; a file request whose service call failed is answered 500
\* with the error message its row holds.
C24_HistoryItemMatchesRow ==
    /\ (Answered /\ ~IsNull(last.historyItem))
          => LET h == Val(last.historyItem)
             IN  \E x \in rows :
                    /\ x.id = h.id /\ x.req = last.req.rid
                    /\ x.status = h.status /\ x.error = h.error
                    /\ x.prompt = h.prompt /\ x.duration_ms = h.duration_ms
                    /\ x.created_at = h.created_at
                    /\ x.request_type = h.request_type
    /\ (last.op = "file" /\ UpstreamFailed)
          => /\ last.status = 500
             /\ \A x \in RowsOf(last.req.rid) :
                  x.status = "error" /\ x.error = last.error

\* C24, its case: a file request whose extraction call was rejected is
\* answered with the row of its failure.
C24_Witness ==
    /\ last.op = "file" /\ last.req.failed = "responses.create"
    /\ ~IsNull(last.historyItem)
    /\ last.error = Some("429 rate limit")
    /\ Val(last.historyItem).id \in Ids(rows)

\* C25: the row of a file request whose extraction call returned never
\* says error, and the row of one whose service call failed never says
\* success.
C25_RowTellsTheServiceOutcome ==
    last.op = "file"
        => \A x \in RowsOf(last.req.rid) :
              /\ last.req.returned => x.status # "error"
              /\ UpstreamFailed => x.status # "success"

\* The kind of content part the rules give an upload, PDF before DOCX
\* before text before image.
ExpectedPartType(file) ==
    LET ext == ToLowerCase(file.originalname[2])
        mime == file.mimetype
    IN  IF ext = ".pdf" \/ mime = MimePdf THEN "input_file"
        ELSE IF ext \in {".docx", ".txt"} \/ mime = MimeDocx
                \/ (mime # <<>> /\ mime[1] = "text") THEN "input_text"
        ELSE "input_image"

\* The prompt text of the command file a request names
ExpectedPrompt(command) ==
    LET cmd == JsonParse(Val(FileText(CommandPath(command)))).v
    IN  IF "user_prompt" \in DOMAIN cmd.v THEN cmd.v.user_prompt.v.str_
        ELSE "Extract the required information from the provided input."

\* C26: the content parts of every extraction call are two: first the
\* one part for the upload, of the kind its rule gives, then a text part
\* with the command's user prompt.
C26_TwoContentParts ==
    \A r \in FileRequests :
        r.pc = "extract"
            => /\ Len(r.parts) = 2
               /\ r.parts[1].type = ExpectedPartType(r.file)
               /\ r.parts[1].type = "input_file" <=> ~IsNull(r.parts[1].file_id)
               /\ r.parts[1].type = "input_text" <=> ~IsNull(r.parts[1].text)
               /\ r.parts[1].type = "input_image" <=> r.parts[1].mime # <<>>
               /\ r.parts[2] = InputText(<<ExpectedPrompt(r.command)>>)

\* C26, its case: mixed.txt declared application/pdf goes out as a file
\* reference followed by the prompt.
C26_Witness ==
    \E r \in FileRequests :
        /\ r.pc = "extract"
        /\ r.file.originalname = <<"mixed", ".txt">> /\ r.file.mimetype = MimePdf
        /\ r.parts[1].type = "input_file" /\ Len(r.parts) = 2

\* C27: a chat row has no result_json, command_name, file_name,
\* file_mime, file_size, file_path and openai_file_id; a file row has no
\* response, and its file_path is the place multer wrote an upload to,
\* the upload of its own request and of no other row.
C27_ColumnsMatchRequestType ==
    /\ \A x \in rows :
         /\ x.request_type \in {Some("chat"), Some("file")}
         /\ x.request_type = Some("chat")
               => /\ IsNull(x.result_json) /\ IsNull(x.command_name)
                  /\ IsNull(x.file_name) /\ IsNull(x.file_mime)
                  /\ IsNull(x.file_size) /\ IsNull(x.file_path)
                  /\ IsNull(x.openai_file_id)
         /\ x.request_type = Some("file")
               => /\ IsNull(x.response)
                  /\ ~IsNull(x.file_path) /\ Val(x.file_path) \in 1..written
                  /\ \A y \in rows : y.file_path = x.file_path => y = x
    /\ Answered
          => \A x \in RowsOf(last.req.rid) :
                /\ x.request_type = Some(last.op)
                /\ x.file_path = last.req.path

\* C27, its case: a chat row and a file row side by side, the file
\* request just answered.
C27_Witness ==
    /\ last.op = "file" /\ RowsOf(last.req.rid) # {}
    /\ \E x \in rows : x.request_type = Some("chat")
    /\ \E x \in rows : x.request_type = Some("file") /\ Val(x.file_path) \in disk

\* C28, state part: a request whose call hangs has no row, and was not
\* answered; listings and deletions are served all the same.
C28_HungRequestIsSilent ==
    /\ \A r \in reqs :
         r.pc = "hung" => RowsOf(r.rid) = {} /\ last.req.rid # r.rid
    /\ ENABLED List(Core)
    /\ ENABLED DeleteOne(Core)
    /\ ENABLED DeleteAll

\* C28, step part: a request whose call hangs stays waiting.
C28_HungRequestStaysHung ==
    \A r \in reqs : r.pc = "hung" => r \in reqs'

\* Request rid is waiting / is not waiting for a call that will settle.
Waiting(rid) == \E r \in reqs : r.rid = rid
Settled(rid) == \A r \in reqs : r.rid = rid => r.pc = "hung"

\* C28: a request whose service call never returns blocks only its own
\* handler: it writes no row and gets no answer, while every other
\* request is answered in the end.
C28_HungCallBlocksOnlyItself ==
    /\ [](C28_HungRequestIsSilent)
    /\ [][C28_HungRequestStaysHung]_vars
    /\ \A rid \in 1..MaxReq : Waiting(rid) ~> Settled(rid)

\* C28, its case: a chat request is answered with its row while the call
\* of an earlier request hangs.
C28_Witness ==
    /\ last.op = "chat" /\ last.status = 200 /\ RowsOf(last.req.rid) # {}
    /\ \E r \in reqs : r.pc = "hung" /\ r.rid < last.req.rid

\* C29: the data URL of an image that is not re-encoded carries an image
\* media type, never image/jpg, and the type of its format where the
\* extension tells it.
C29_ImageLabelIsCanonical ==
    \A r \in FileRequests :
        (r.pc = "extract" /\ r.parts[1].type = "input_image" /\ r.calls[1] # "sharp")
            => LET label == r.parts[1].mime
                   ext == ToLowerCase(r.file.originalname[2])
               IN  /\ Len(label) = 2 /\ label[1] = "image"
                   /\ label # <<"image", "jpg">>
                   /\ ext = ".png" => label = <<"image", "png">>
                   /\ ext \in {".jpg", ".jpeg"} => label = <<"image", "jpeg">>
====
